---- MODULE Spec2Model ----
(***************************************************************************)
(* Upload / query / delete orchestration of the challan chatbot server     *)
(* (src/Server/modules/Agent/agent_service.py) over a MySQL database:      *)
(* dynamic tables, the excel_uploads bookkeeping table, and the requests   *)
(* that run concurrently, each on its own session.                         *)
(***************************************************************************)
EXTENDS Integers, Sequences, FiniteSets, TLC

(***************************************************************************)
(* Bounds of the model.                                                    *)
(***************************************************************************)
MaxOps == 2
MaxRows == 2
MaxTime == 1

Workers == {1, 2}
Users == {"u1", "u2"}

(***************************************************************************)
(* Strings are sequences of one-character strings.                         *)
(***************************************************************************)
LowerChars == <<"a","b","c","d","e","f","g","h","i","j","k","l","m","n","o","p","q","r","s","t","u","v","w","x","y","z">>
UpperChars == <<"A","B","C","D","E","F","G","H","I","J","K","L","M","N","O","P","Q","R","S","T","U","V","W","X","Y","Z">>
DigitChars == {"0","1","2","3","4","5","6","7","8","9"}

Range(s) == {s[i] : i \in DOMAIN s}

IsAlpha(c) == c \in Range(LowerChars) \cup Range(UpperChars)

IsWordChar(c) == IsAlpha(c) \/ c \in DigitChars \/ c = "_"

LowerOf ==
    [c \in Range(UpperChars) |->
        LowerChars[CHOOSE k \in DOMAIN UpperChars : UpperChars[k] = c]]

\* str.lower() on one character
LowerChar(c) == IF c \in DOMAIN LowerOf THEN LowerOf[c] ELSE c

Lower(s) == [i \in DOMAIN s |-> LowerChar(s[i])]

\* re.sub(r'[^a-zA-Z0-9_]', '_', name)
ReSubNonWord(s) == [i \in DOMAIN s |-> IF IsWordChar(s[i]) THEN s[i] ELSE "_"]

RECURSIVE LStrip(_)
LStrip(s) == IF s # <<>> /\ Head(s) = "_" THEN LStrip(Tail(s)) ELSE s

RECURSIVE RStrip(_)
RStrip(s) ==
    IF s # <<>> /\ s[Len(s)] = "_" THEN RStrip(SubSeq(s, 1, Len(s) - 1)) ELSE s

\* str.strip('_')
Strip(s) == RStrip(LStrip(s))

MaxIdentLen == 64

Sanitize(name, prefix) ==
    LET subbed == ReSubNonWord(name)
        stripped == Strip(subbed)
        prefixed == IF stripped # <<>> /\ ~IsAlpha(stripped[1])
                    THEN prefix \o stripped
                    ELSE stripped
        cut == IF Len(prefixed) > MaxIdentLen
               THEN SubSeq(prefixed, 1, MaxIdentLen)
               ELSE prefixed
    IN  Lower(cut)

sanitize_table_name(name) == Sanitize(name, <<"t","b","l","_">>)

sanitize_column_name(name) == Sanitize(name, <<"c","o","l","_">>)

(***************************************************************************)
(* Uploaded files.  A file has a stem and an extension, pre lines before   *)
(* its header line, a header of column labels and nrows data lines.        *)
(***************************************************************************)
Name == <<"N","a","m","e">>
Amount == <<"A","m","o","u","n","t">>
ChallanAmount == <<"C","h","a","l","l","a","n"," ","A","m","o","u","n","t">>
OwnerName == <<"O","w","n","e","r"," ","N","a","m","e">>
LabelASpaceB == <<"A"," ","B">>
LabelADashB == <<"A","-","B">>

required_columns ==
    << <<"C","h","a","l","l","a","n"," ","N","u","m","b","e","r">>,
       <<"C","h","a","l","l","a","n"," ","S","o","u","r","c","e">>,
       <<"V","e","h","i","c","l","e"," ","N","u","m","b","e","r">>,
       <<"C","h","a","l","l","a","n"," ","D","a","t","e">>,
       <<"C","h","a","l","l","a","n"," ","P","l","a","c","e">>,
       <<"L","a","t","i","t","u","e"," ","L","o","n","g","t","i","t","u","e">>,
       <<"V","i","o","l","a","t","o","r"," ","N","a","m","e">>,
       <<"V","i","o","l","a","t","o","r"," ","A","d","d","r","e","s","s">>,
       <<"V","i","o","l","a","t","o","r"," ","C","o","n","t","a","c","t">>,
       <<"O","w","n","e","r"," ","N","a","m","e">>,
       <<"C","h","a","l","l","a","n"," ","S","t","a","t","u","s">>,
       <<"C","h","a","l","l","a","n"," ","A","m","o","u","n","t">>,
       <<"V","e","h","i","c","l","e"," ","C","l","a","s","s">>,
       <<"S","e","n","d"," ","T","o"," ","C","o","u","r","t"," ","D","a","t","e">>,
       <<"C","o","u","r","t"," ","N","a","m","e">>,
       <<"O","f","f","e","n","c","e","s">> >>


\* df[required_columns] after dropping the labels the file does not have
preprocess_csv_data(cols) ==
    SelectSeq(required_columns, LAMBDA c : c \in Range(cols))

SkipRows == 7

NameAmount == <<Name, Amount>>

NameChallan == <<Name, ChallanAmount>>

\* bad is the first data row holding a cell the INSERT statement built at
\* lines 122-133 cannot carry (text ending in a backslash, or a colon followed
\* by a name, which text() reads as a bind parameter); 0 when there is none.
Files ==
    [stem : {<<"a">>}, ext : {".xlsx"}, pre : {0}, cols : {NameAmount},
     nrows : {0, MaxRows}, bad : {0}]
    \cup
    [stem : {<<"a">>}, ext : {".xlsx"}, pre : {0}, cols : {NameAmount},
     nrows : {MaxRows}, bad : {MaxRows}]
    \cup
    [stem : {<<"1">>}, ext : {".xlsx"}, pre : {0},
     cols : {<<LabelASpaceB, LabelADashB>>}, nrows : {1}, bad : {0}]
    \cup
    [stem : {<<"a">>}, ext : {".csv"}, pre : {0}, cols : {NameAmount},
     nrows : {MaxRows}, bad : {0}]
    \cup
    [stem : {<<"a">>}, ext : {".csv"}, pre : {SkipRows}, cols : {NameChallan, NameAmount},
     nrows : {1}, bad : {0}]
    \cup
    [stem : {<<"a">>}, ext : {".txt"}, pre : {0}, cols : {NameAmount}, nrows : {1}, bad : {0}]

NoFile == [stem |-> <<>>, ext |-> "", pre |-> 0, cols |-> <<>>, nrows |-> 0, bad |-> 0]

\* The frame pandas yields: raised, or the column labels and the row count.
\* read_csv(skiprows=7, header=0) takes line 8 as the header and raises when
\* nothing is left; a header taken from a data line carries no challan label.
read_csv_with_preprocessing(f) ==
    IF f.pre + 1 + f.nrows <= SkipRows
    THEN [raised |-> TRUE, columns |-> <<>>, len |-> 0]
    ELSE IF f.pre = SkipRows
    THEN [raised |-> FALSE, columns |-> preprocess_csv_data(f.cols), len |-> f.nrows]
    ELSE [raised |-> FALSE, columns |-> <<>>, len |-> f.pre + f.nrows - SkipRows]

read_excel(f) == [raised |-> FALSE, columns |-> f.cols, len |-> f.nrows]

\* upload_excel_service without the check of line 247
DfEmpty_Unchecked(df) == FALSE

\* DataFrame.empty: no rows or no columns
DfEmpty(df) == df.len = 0 \/ df.columns = <<>>

(***************************************************************************)
(* Database state.  tables holds one entry per existing dynamic table: its *)
(* name, column identifiers and committed rows (creator is the request     *)
(* whose CREATE made it); records is the excel_uploads table.              *)
(***************************************************************************)
VARIABLES clock, nextId, tables, records, users, proc, last

vars == <<clock, nextId, tables, records, users, proc, last>>

NoName == <<>>

\* f"excel_{_sanitize_table_name(base_name)}_{timestamp}"
TableName(stem, now) == <<"excel", sanitize_table_name(stem), now>>

ReservedColumns ==
    { <<"i","d">>,
      <<"c","r","e","a","t","e","d","_","a","t">>,
      <<"u","p","d","a","t","e","d","_","a","t">> }

SanitizedColumns(columns) ==
    [i \in DOMAIN columns |-> sanitize_column_name(columns[i])]

\* CREATE TABLE rejects a column list that names a column twice
DuplicateColumns(columns) ==
    LET sc == SanitizedColumns(columns)
    IN  \/ \E i, j \in DOMAIN sc : i # j /\ sc[i] = sc[j]
        \/ \E i \in DOMAIN sc : sc[i] \in ReservedColumns

NoData == [null |-> TRUE]

NoSql == [verb |-> "none"]

NoMode == <<>>

NoShape == [branch |-> "none", keys |-> 0, positive |-> FALSE]

NoChart == [kind |-> "none", all_zero |-> FALSE]

Failure(msg) == [status |-> FALSE, message |-> msg, data |-> NoData]

Success(msg, d) == [status |-> TRUE, message |-> msg, data |-> d]

NoSchema == [table |-> NoName, error |-> FALSE]

\* None in the columns otp and otp_created_at of a user
NoOtp == ""

NoTime == 0 - 1

\* No row of the table users.  verified counts the successful verifications
\* since the row's OTP was issued: it is no column of the table.
NoUser == [email |-> "", otp |-> NoOtp, otp_created_at |-> NoTime, verified |-> 0]

IdleProc ==
    [kind |-> "idle", pc |-> "idle", id |-> 0, user |-> "", file |-> NoFile,
     table_name |-> NoName, columns |-> <<>>, len |-> 0, pending |-> 0,
     rows_inserted |-> 0, file_id |-> 0, table_dropped |-> FALSE,
     raised_in |-> "", create_raised |-> FALSE, drop_raised |-> FALSE,
     query |-> <<>>, tn_arg |-> NoName, sql |-> NoSql, top_k |-> 0, mode |-> NoMode,
     mode_arg |-> NoMode, shape |-> NoShape,
     key |-> <<FALSE, FALSE>>, gen |-> "", executed |-> FALSE, answered |-> FALSE,
     exec_raised |-> FALSE, matched |-> 0, schema |-> NoSchema,
     otp |-> NoOtp, row |-> NoUser,
     res |-> Failure("")]

Init ==
    /\ clock = 0
    /\ nextId = 1
    /\ tables = {}
    /\ records = {}
    /\ users = {}
    /\ proc = [w \in Workers |-> IdleProc]
    /\ last = IdleProc

\* A request is served by the first idle worker of the pool.
Free(w) ==
    /\ proc[w].pc = "idle"
    /\ \A v \in Workers : v < w => proc[v].pc # "idle"
    /\ nextId <= MaxOps

\* The request of worker w returns `result`: its session is closed and the
\* worker is free again.  last is the request that returned in the latest
\* step, as it ended (IdleProc when the latest step returned none).
Return(w, p, result) ==
    /\ proc' = [proc EXCEPT ![w] = IdleProc]
    /\ last' = [p EXCEPT !.pc = "done", !.res = result]

Tick ==
    /\ clock < MaxTime
    /\ clock' = clock + 1
    /\ last' = IdleProc
    /\ UNCHANGED <<nextId, tables, records, proc, users>>

(***************************************************************************)
(* upload_excel_service                                                    *)
(***************************************************************************)
TableExists(name) == \E t \in tables : t.name = name

TableOf(name) == CHOOSE t \in tables : t.name = name

\* The CREATE TABLE IF NOT EXISTS statement executes: the database runs it
\* (ok) and accepts the column list; an existing table of that name makes it a
\* no-op.
CreateExecutes(ok, name, columns) ==
    ok /\ (TableExists(name) \/ ~DuplicateColumns(columns))

\* create_dynamic_table with the except branch returning True as well
create_dynamic_table_AlwaysTrue(executed) == TRUE

\* _create_dynamic_table lines 84-90: True after the commit, False from the
\* except branch
create_dynamic_table(executed) == executed

SupportedExts == {".csv", ".xlsx", ".xls"}

\* lines 230-239: the frame read from the file
ReadFile(f) == IF f.ext = ".csv" THEN read_csv_with_preprocessing(f) ELSE read_excel(f)

\* The file gets past lines 230-262
Accepted(f) ==
    f.ext \in SupportedExts /\ ~ReadFile(f).raised /\ ~DfEmpty(ReadFile(f))

\* The uploads that are tried: every file by the first user, the plain
\* spreadsheets by every user
UploadRequests ==
    {u \in Users \X Files :
        u[1] = "u1" \/ (u[2].ext = ".xlsx" /\ Accepted(u[2]) /\ u[2].bad = 0)}

\* upload_excel_service lines 225-277: parse, reject empty frames, derive the
\* table name, create the table
UploadBegin(w) ==
    /\ Free(w)
    /\ \E u \in UploadRequests :
        LET user == u[1]
            f == u[2]
            p0 == [IdleProc EXCEPT !.kind = "upload", !.id = nextId, !.user = user, !.file = f]
            df == ReadFile(f)
        IN  IF f.ext \notin SupportedExts
            THEN Return(w, p0, Failure("Unsupported file format")) /\ tables' = tables
            ELSE IF df.raised
            THEN /\ Return(w, [p0 EXCEPT !.raised_in = "parse"], Failure("Error processing file"))
                 /\ tables' = tables
            ELSE IF DfEmpty(df)
            THEN Return(w, p0, Failure("File is empty after processing")) /\ tables' = tables
            ELSE \E ok \in BOOLEAN :
                 LET p == [p0 EXCEPT !.columns = df.columns, !.len = df.len,
                                     !.table_name = TableName(f.stem, clock)]
                     executed == CreateExecutes(ok, p.table_name, p.columns)
                     q == [p EXCEPT !.create_raised = ~executed]
                 IN
                 /\ tables' =
                      IF executed /\ ~TableExists(p.table_name)
                      THEN tables \cup
                             {[name |-> p.table_name, creator |-> p.id,
                               columns |-> Range(SanitizedColumns(p.columns)), rows |-> {}]}
                      ELSE tables
                 /\ IF create_dynamic_table(executed)
                    THEN proc' = [proc EXCEPT ![w] = [q EXCEPT !.pc = "insert"]] /\ last' = IdleProc
                    ELSE Return(w, q, Failure("Failed to create database table"))
    /\ nextId' = nextId + 1
    /\ UNCHANGED <<clock, records, users>>

\* An INSERT statement of the request can execute: the table is there and has
\* every column the statement names.
InsertPossible(p) ==
    /\ TableExists(p.table_name)
    /\ Range(SanitizedColumns(p.columns)) \subseteq TableOf(p.table_name).columns

\* The rows a request writes: each has a fresh uuid
RowsOf(p, n) == {[id |-> <<p.id, k>>, upload |-> p.id] : k \in 1..n}

\* rollback_insert with the rollback missing: the rows written before the
\* failing statement stay
rollback_insert_KeepsWritten(t, p, written) ==
    IF t.name = p.table_name THEN t.rows \cup RowsOf(p, written) ELSE t.rows

\* What db.rollback() leaves of table t when the batch of request p fails
\* after `written` rows: the rows committed before, none of the batch
rollback_insert(t, p, written) == t.rows

\* _insert_excel_data, called at line 280.  failed_at = 0: every INSERT and the
\* commit succeed; failed_at = k: the k-th statement raises (the commit, for
\* k = len + 1), the transaction is rolled back and the error re-raised to
\* lines 305-311; a row that cannot be carried fails at its own statement at the
\* latest.  The rows of an open transaction are invisible to the other
\* sessions, so the call is one step.
InsertData(w) ==
    /\ proc[w].kind = "upload" /\ proc[w].pc = "insert"
    /\ \E failed_at \in 0..(proc[w].len + 1) :
        LET p == proc[w] IN
        /\ ~InsertPossible(p) => failed_at = 1
        /\ p.file.bad > 0 => failed_at \in 1..p.file.bad
        /\ IF failed_at = 0
           THEN /\ tables' = {IF t.name = p.table_name
                              THEN [t EXCEPT !.rows = @ \cup RowsOf(p, p.len)]
                              ELSE t : t \in tables}
                /\ proc' = [proc EXCEPT ![w].pc = "record", ![w].rows_inserted = p.len]
                /\ last' = IdleProc
           ELSE /\ tables' = {IF t.name = p.table_name
                              THEN [t EXCEPT !.rows = rollback_insert(t, p, failed_at - 1)]
                              ELSE t : t \in tables}
                /\ Return(w, [p EXCEPT !.raised_in = "insert", !.pending = failed_at - 1],
                          Failure("Error processing file"))
    /\ UNCHANGED <<clock, nextId, records, users>>

\* UploadRecord without row_count, which then takes the column default 0
UploadRecord_DefaultCount(p) ==
    [id |-> p.id, user_id |-> p.user, filename |-> <<p.file.stem, p.file.ext>>,
     table_name |-> p.table_name, columns |-> p.columns,
     row_count |-> 0, created_at |-> clock]

UploadRecord(p) ==
    [id |-> p.id, user_id |-> p.user, filename |-> <<p.file.stem, p.file.ext>>,
     table_name |-> p.table_name, columns |-> p.columns,
     row_count |-> p.rows_inserted, created_at |-> clock]

\* excel_uploads.table_name is unique (models.py line 101)
UniqueTableName(name) == \A r \in records : r.table_name # name

\* upload_excel_service lines 283-304, and 305-311 when the INSERT raises
add_record(w) ==
    /\ proc[w].kind = "upload" /\ proc[w].pc = "record"
    /\ \E ok \in BOOLEAN :
        LET p == proc[w] IN
        IF ok /\ UniqueTableName(p.table_name)
        THEN /\ records' = records \cup {UploadRecord(p)}
             /\ Return(w, p, Success("Successfully uploaded and stored rows",
                    [table_name |-> p.table_name, rows_processed |-> p.len,
                     rows_stored |-> p.rows_inserted, columns |-> p.columns]))
        ELSE /\ records' = records
             /\ Return(w, [p EXCEPT !.raised_in = "record"], Failure("Error processing file"))
    /\ UNCHANGED <<clock, nextId, tables, users>>

(***************************************************************************)
(* delete_file_service                                                     *)
(***************************************************************************)
\* OwnedUpload without the filter on the owner
OwnedUpload_AnyOwner(file_id, user) == {r \in records : r.id = file_id}

\* lines 1281-1284: the record with that id owned by the caller
OwnedUpload(file_id, user) ==
    {r \in records : r.id = file_id /\ r.user_id = user}

\* lines 1271-1294
DeleteBegin(w) ==
    /\ Free(w)
    /\ \E user \in Users, file_id \in 1..MaxOps :
        LET p0 == [IdleProc EXCEPT !.kind = "delete", !.id = nextId, !.user = user,
                                   !.file_id = file_id]
            found == OwnedUpload(file_id, user)
        IN  IF found = {}
            THEN Return(w, p0, Failure("File not found or you don't have permission to delete it"))
            ELSE \E upload \in found :
                   /\ proc' = [proc EXCEPT ![w] =
                         [p0 EXCEPT !.pc = "drop", !.table_name = upload.table_name]]
                   /\ last' = IdleProc
    /\ nextId' = nextId + 1
    /\ UNCHANGED <<clock, tables, records, users>>

\* _drop_table: DROP TABLE IF EXISTS, committed at once; False when it raises
drop_table(ok, name) == ok

\* lines 1297-1300
DropTable(w) ==
    /\ proc[w].kind = "delete" /\ proc[w].pc = "drop"
    /\ \E ok \in BOOLEAN :
        LET dropped == drop_table(ok, proc[w].table_name) IN
        /\ tables' = IF dropped THEN {t \in tables : t.name # proc[w].table_name} ELSE tables
        /\ proc' = [proc EXCEPT ![w].pc = "del_record", ![w].table_dropped = dropped,
                                ![w].drop_raised = ~dropped]
    /\ last' = IdleProc
    /\ UNCHANGED <<clock, nextId, records, users>>

\* DeleteData reporting the table as dropped whatever _drop_table returned
DeleteData_AlwaysDropped(p) ==
    [file_id |-> p.file_id, table_name |-> p.table_name, table_dropped |-> TRUE]

\* The data of a successful delete (lines 1309-1314)
DeleteData(p) ==
    [file_id |-> p.file_id, table_name |-> p.table_name, table_dropped |-> p.table_dropped]

\* lines 1303-1322: delete the record and commit, or roll back and report
DeleteRecord(w) ==
    /\ proc[w].kind = "delete" /\ proc[w].pc = "del_record"
    /\ \E ok \in BOOLEAN :
        LET p == proc[w] IN
        IF ok
        THEN /\ records' = {r \in records : r.id # p.file_id}
             /\ Return(w, p, Success("Successfully deleted file and its database table",
                                     DeleteData(p)))
        ELSE /\ records' = records
             /\ Return(w, [p EXCEPT !.raised_in = "del_record"], Failure("Error deleting file"))
    /\ UNCHANGED <<clock, nextId, tables, users>>

(***************************************************************************)
(* list_files_service                                                      *)
(***************************************************************************)
\* ListedUploads without the filter on the owner
ListedUploads_AnyOwner(user) == records

\* lines 1222-1224: the records of the caller
ListedUploads(user) == {r \in records : r.user_id = user}

\* order_by(created_at.desc()).all(): the records in an order in which none
\* comes before a newer one (records of the same second in any order)
OrderedDesc(S) ==
    {seq \in [1..Cardinality(S) -> S] :
        /\ \A i, j \in DOMAIN seq : i # j => seq[i] # seq[j]
        /\ \A i, j \in DOMAIN seq : i < j => seq[i].created_at >= seq[j].created_at}

\* lines 1228-1236: the summary of a record
FileSummary(r) ==
    [id |-> r.id, filename |-> r.filename, table_name |-> r.table_name,
     columns |-> r.columns, row_count |-> r.row_count, created_at |-> r.created_at]

\* list_files_service: a read of the committed records, which takes no turn
\* among the uploads and deletes
ListFiles(w) ==
    /\ proc[w].pc = "idle"
    /\ \A v \in Workers : v < w => proc[v].pc # "idle"
    /\ \E user \in Users, ok \in BOOLEAN :
        LET p == [IdleProc EXCEPT !.kind = "list", !.user = user] IN
        IF ok
        THEN \E uploads \in OrderedDesc(ListedUploads(user)) :
             LET files == [i \in DOMAIN uploads |-> FileSummary(uploads[i])]
             IN  Return(w, p, Success("Found uploaded file(s)",
                                      [files |-> files, total_count |-> Len(files)]))
        ELSE Return(w, [p EXCEPT !.raised_in = "list"], Failure("Error listing files"))
    /\ UNCHANGED <<clock, nextId, tables, records, users>>

(***************************************************************************)
(* query_service                                                           *)
(***************************************************************************)
WhitespaceChars == {" "}

\* str.strip()
RECURSIVE StripWs(_)
StripWs(q) ==
    IF q # <<>> /\ Head(q) \in WhitespaceChars THEN StripWs(Tail(q))
    ELSE IF q # <<>> /\ q[Len(q)] \in WhitespaceChars THEN StripWs(SubSeq(q, 1, Len(q) - 1))
    ELSE q

Queries == { <<" ">>, <<"q">> }

TopKs == {1}

TextMode == <<"t","e","x","t">>

GraphMode == <<"g","r","a","p","h">>

TableMode == <<"t","a","b","l","e">>

valid_modes == {TextMode, GraphMode, TableMode}

\* The mode values sent: none, the three modes, one in capitals, an unknown one
Modes == {NoMode, TextMode, GraphMode, TableMode, <<"G","R","A","P","H">>, <<"p","i","e">>}

\* query_agent passing the mode on as it was sent
effective_mode_AsSent(mode) == mode

\* query_agent lines 90-93
effective_mode(mode) ==
    LET lowered == IF mode # NoMode THEN Lower(mode) ELSE TextMode
    IN  IF lowered \notin valid_modes THEN TextMode ELSE lowered

UploadsTable == <<"excel_uploads">>

UnknownName == <<"excel", <<"z">>, 0>>

\* _get_latest_table_name: the table of a record of the user that no other
\* record of the user is newer than; None when there is none or the lookup
\* raises
get_latest_table_name(ok, user) ==
    LET mine == {r \in records : r.user_id = user}
        latest == {r \in mine : \A r2 \in mine : r2.created_at <= r.created_at}
    IN  IF ok /\ mine # {} THEN {r.table_name : r \in latest} ELSE {NoName}

\* get_named_table without the filter on the owner
get_named_table_AnyOwner(user, table_name) ==
    IF \E r \in records : r.table_name = table_name THEN table_name ELSE NoName

\* _get_table_name_by_id_or_latest lines 1329-1337, the named table
get_named_table(user, table_name) ==
    IF \E r \in records : r.table_name = table_name /\ r.user_id = user
    THEN table_name
    ELSE NoName

\* table_not_resolved telling a table recorded for someone else from a name
\* that no record carries
table_not_resolved_Distinct(user, table_name) ==
    IF table_name = NoName THEN "No Excel file has been uploaded yet"
    ELSE IF \E r \in records : r.table_name = table_name
    THEN "You don't have permission to access this table"
    ELSE "Table not found or you don't have permission to access it"

\* query_service lines 1365-1377: the message when no table was resolved (the
\* text for a named table also quotes the name that was asked for)
table_not_resolved(user, table_name) ==
    IF table_name # NoName
    THEN "Table not found or you don't have permission to access it"
    ELSE "No Excel file has been uploaded yet"

\* query_agent and query_service lines 1345-1377, for a request whose mode
\* value is one of `modes`
QueryRequest(w, modes) ==
    /\ Free(w)
    /\ \E query \in Queries :
        IF StripWs(query) = <<>>
        THEN Return(w, [IdleProc EXCEPT !.kind = "query", !.id = nextId, !.query = query],
                    Failure("Query cannot be empty"))
        ELSE \E user \in Users, top_k \in TopKs,
                tn \in {NoName, UnknownName} \cup {t.name : t \in tables}
                        \cup {r.table_name : r \in records} :
             \E mode \in modes :
             LET p0 == [IdleProc EXCEPT !.kind = "query", !.id = nextId, !.user = user,
                                        !.tn_arg = tn, !.top_k = top_k, !.mode_arg = mode,
                                        !.mode = effective_mode(mode),
                                        !.query = query]
             IN  \E ok \in BOOLEAN :
                 IF tn # NoName /\ ~ok
                 THEN Return(w, [p0 EXCEPT !.raised_in = "resolve"],
                             Failure("Error processing query"))
                 ELSE \E selected \in IF tn # NoName THEN {get_named_table(user, tn)}
                                      ELSE get_latest_table_name(ok, user) :
                        IF selected = NoName
                        THEN Return(w, p0, Failure(table_not_resolved(user, tn)))
                        ELSE /\ proc' = [proc EXCEPT ![w] =
                                  [p0 EXCEPT !.pc = "run", !.table_name = selected]]
                             /\ last' = IdleProc
    /\ nextId' = nextId + 1
    /\ UNCHANGED <<clock, tables, records, users>>

\* A query sent without a mode value
QueryBegin(w) == QueryRequest(w, {NoMode})

\* A query sent with any of the mode values
QueryWithMode(w) == QueryRequest(w, Modes)

\* The statements the language model may return.  agg: the text holds one of
\* the aggregate keywords; limit_word: the text holds the word limit;
\* limit_clause: it has a LIMIT clause of its own; open_comment: it ends in a
\* line comment, which swallows whatever is appended.
SqlTexts(selected) ==
    {q \in [verb : {"select", "delete", "drop", "truncate"}, target : {selected, UploadsTable},
            agg : BOOLEAN, limit_word : BOOLEAN, limit_clause : BOOLEAN,
            open_comment : BOOLEAN] :
        /\ q.limit_clause => q.limit_word
        /\ q.agg => q.verb = "select"
        /\ q.verb \in {"select", "delete"} => ~q.open_comment /\ q.limit_word = q.limit_clause
        /\ q.verb = "delete" => ~q.limit_clause
        /\ q.verb = "drop" => ~q.limit_clause /\ ~(q.limit_word /\ q.open_comment)
        /\ q.verb = "truncate" => q.open_comment /\ ~q.limit_word
        /\ q.target = UploadsTable => q.verb = "truncate"}

AggregateLimit == 100

\* _execute_sql_query lines 592-597: the LIMIT clause in force when the
\* statement runs; 0 when there is none
AppendedLimit(q, top_k) ==
    IF ~q.agg /\ ~q.limit_word THEN top_k * 2
    ELSE IF q.agg /\ ~q.limit_word THEN AggregateLimit
    ELSE 0

HasLimitClause(q, top_k) ==
    q.limit_clause \/ (AppendedLimit(q, top_k) # 0 /\ ~q.open_comment)

\* MySQL accepts LIMIT after SELECT and DELETE, not after DROP or TRUNCATE
Executes(q, top_k) ==
    q.verb \in {"drop", "truncate"} => ~HasLimitClause(q, top_k)

Min(a, b) == IF a < b THEN a ELSE b

\* _execute_sql_query letting the exception out instead of returning []
execute_sql_query_Propagates(ok, q, top_k, matched) ==
    IF ~ok \/ ~Executes(q, top_k) \/ q.verb # "select" THEN -1
    ELSE LET fetched == IF AppendedLimit(q, top_k) = 0 \/ q.open_comment THEN matched
                        ELSE Min(matched, AppendedLimit(q, top_k))
         IN  IF ~q.agg THEN Min(fetched, top_k) ELSE fetched

\* _execute_sql_query without the slice results[:top_k] of line 622
execute_sql_query_Untruncated(ok, q, top_k, matched) ==
    IF ~ok \/ ~Executes(q, top_k) \/ q.verb # "select" THEN 0
    ELSE IF AppendedLimit(q, top_k) = 0 \/ q.open_comment THEN matched
    ELSE Min(matched, AppendedLimit(q, top_k))

\* _execute_sql_query with the slice of line 622 applied to every statement
execute_sql_query_SlicesAll(ok, q, top_k, matched) ==
    IF ~ok \/ ~Executes(q, top_k) \/ q.verb # "select" THEN 0
    ELSE LET fetched == IF AppendedLimit(q, top_k) = 0 \/ q.open_comment THEN matched
                        ELSE Min(matched, AppendedLimit(q, top_k))
         IN  Min(fetched, top_k)

\* _execute_sql_query: the number of rows returned for a statement that
\* matched `matched` rows; [] when execution or fetchall raises
execute_sql_query(ok, q, top_k, matched) ==
    IF ~ok \/ ~Executes(q, top_k) \/ q.verb # "select" THEN 0
    ELSE LET fetched == IF AppendedLimit(q, top_k) = 0 \/ q.open_comment THEN matched
                        ELSE Min(matched, AppendedLimit(q, top_k))
         IN  IF ~q.agg THEN Min(fetched, top_k) ELSE fetched

\* What a statement leaves committed in the dynamic tables: DROP and TRUNCATE
\* commit at once; DELETE stays in the session's transaction, which
\* query_service never commits and db.close() rolls back
TablesAfterSql(ok, q, top_k) ==
    IF ~ok \/ ~Executes(q, top_k) THEN tables
    ELSE IF q.verb = "drop" THEN {t \in tables : t.name # q.target}
    ELSE IF q.verb = "truncate"
    THEN {IF t.name = q.target THEN [t EXCEPT !.rows = {}] ELSE t : t \in tables}
    ELSE tables

RecordsAfterSql(ok, q, top_k) ==
    IF ok /\ Executes(q, top_k) /\ q.verb = "truncate" /\ q.target = UploadsTable
    THEN {}
    ELSE records

RowCount(name) ==
    IF name = UploadsTable THEN Cardinality(records)
    ELSE IF TableExists(name) THEN Cardinality(TableOf(name).rows)
    ELSE 0

\* _generate_sql_query lines 375-386: the key in use is the one read at import
\* time or else the one in the environment now
ApiKey(key_import, key_env) == key_import \/ key_env

KeyConfigs == {<<FALSE, FALSE>>, <<FALSE, TRUE>>, <<TRUE, FALSE>>}

\* How a call of _generate_sql_query with a key can end: genai.configure
\* raises (line 393), no model initializes (418), generate_content raises
\* (552), the response is empty (555), its text is blank once stripped of
\* white space and code fences (559-567), or it is a statement
GenOutcomes == {"configure", "no_model", "throws", "empty", "blank", "sql"}

\* lines 380-389: configure is called only with a key that is not the one of
\* import time; without any key the call ends at line 386
GenCause(key_import, key_env, outcome) ==
    IF ~ApiKey(key_import, key_env) THEN "no_key" ELSE outcome

\* The empty statement
EmptyStatement ==
    [verb |-> "empty", target |-> NoName, agg |-> FALSE, limit_word |-> FALSE,
     limit_clause |-> FALSE, open_comment |-> FALSE]

\* _generate_sql_query handing out an empty statement when it has none
generate_sql_query_Fabricates(key_import, key_env, outcome, text) ==
    IF text = NoSql THEN EmptyStatement ELSE text

\* _generate_sql_query: the statement, or None / the empty text
generate_sql_query(key_import, key_env, outcome, text) ==
    IF GenCause(key_import, key_env, outcome) = "sql" THEN text ELSE NoSql

\* query_service lines 1387-1390: the message follows the key of import time
generation_error(key_import) ==
    IF ~key_import
    THEN "GEMINI_KEY not found in environment variables"
    ELSE "Failed to generate SQL query"

\* db.execute or fetchall raises: the database refuses the statement, or the
\* statement returns no rows to fetch
ExecRaises(ok, q, top_k) == ~ok \/ ~Executes(q, top_k) \/ q.verb # "select"

\* What the rows returned look like to _generate_visualization_data: the
\* branch the statement text selects (GROUP BY, an aggregate function, or
\* neither), whether a row has two columns or one, and whether the values
\* extracted hold a positive number.  Both keywords are aggregate keywords of
\* the executor (lines 586-589).
ResultShapes(q) ==
    {sh \in [branch : {"group_by", "function", "other"}, keys : {1, 2}, positive : BOOLEAN] :
        sh.branch # "other" => q.agg}

\* _generate_visualization_data: None, a single value, or a chart of labels
\* and values
generate_visualization_data(n, shape) ==
    IF n = 0 THEN NoChart
    ELSE IF shape.branch = "group_by" /\ shape.keys >= 2
    THEN IF shape.positive THEN [kind |-> "labels_values", all_zero |-> FALSE]
         ELSE NoChart
    ELSE IF shape.branch = "function"
    THEN [kind |-> "single_value", all_zero |-> ~shape.positive]
    ELSE IF shape.keys >= 2
    THEN [kind |-> "labels_values", all_zero |-> ~shape.positive]
    ELSE NoChart

\* _generate_table_data: None without rows
generate_table_data(n) == n > 0

\* lines 1404-1429: the response of a query that was executed; results is the
\* number of rows, 0 standing for None.  visualization_data is NoChart and
\* table_data FALSE when the response has no such key.
query_response(p, sql, n) ==
    Success("Query processed successfully",
            [results |-> n, sql_query |-> sql, table_name |-> p.table_name,
             mode |-> p.mode,
             visualization_data |-> IF p.mode = GraphMode
                                    THEN generate_visualization_data(n, p.shape)
                                    ELSE NoChart,
             table_data |-> p.mode = TableMode /\ generate_table_data(n)])

\* _get_table_schema letting the exception out: no description is made of a
\* table that cannot be read
get_table_schema_Raises(ok, table_name) ==
    IF ok /\ TableExists(table_name) THEN [table |-> table_name, error |-> FALSE]
    ELSE NoSchema

\* _get_table_schema: the description names the table, and holds the error
\* when the inspector or one of the two SELECTs raises, as they do for a
\* table that is not there
get_table_schema(ok, table_name) ==
    [table |-> table_name, error |-> ~ok \/ ~TableExists(table_name)]

\* lines 1379-1437: describe the table, translate, execute, answer.  A
\* negative count from the executor stands for an exception leaving it, which
\* the except branch at 1430-1435 reports.  `describes` holds whether the
\* database answers the statements of _get_table_schema.
QueryRunDescribing(w, describes) ==
    /\ proc[w].kind = "query" /\ proc[w].pc = "run"
    /\ \E key \in KeyConfigs, outcome \in GenOutcomes, described \in describes :
       \E text \in IF GenCause(key[1], key[2], outcome) = "sql"
                   THEN SqlTexts(proc[w].table_name) ELSE {NoSql} :
        LET sql == generate_sql_query(key[1], key[2], outcome, text)
            p == [proc[w] EXCEPT !.gen = GenCause(key[1], key[2], outcome),
                                 !.schema = get_table_schema(described, proc[w].table_name)]
        IN  /\ outcome = "configure" => ~key[1]
            /\ IF sql = NoSql
               THEN /\ Return(w, [p EXCEPT !.key = key], Failure(generation_error(key[1])))
                    /\ UNCHANGED <<tables, records>>
               ELSE \E ok \in IF Executes(sql, p.top_k) THEN BOOLEAN ELSE {FALSE},
                       matched \in IF sql.verb = "select" THEN 0..RowCount(sql.target) ELSE {0} :
                    LET n == execute_sql_query(ok, sql, p.top_k, matched)
                    IN  \E shape \in IF n > 0 /\ p.mode = GraphMode
                                     THEN ResultShapes(sql) ELSE {NoShape} :
                        LET q == [p EXCEPT !.sql = sql, !.executed = TRUE,
                                           !.matched = matched, !.shape = shape,
                                           !.exec_raised = ExecRaises(ok, sql, p.top_k)]
                        IN  /\ tables' = TablesAfterSql(ok, sql, p.top_k)
                            /\ records' = RecordsAfterSql(ok, sql, p.top_k)
                            /\ IF n < 0
                               THEN Return(w, [q EXCEPT !.raised_in = "execute"],
                                           Failure("Error processing query"))
                               ELSE Return(w, [q EXCEPT !.answered = TRUE],
                                           query_response(q, sql, n))
    /\ UNCHANGED <<clock, nextId, users>>

\* The rest of a query, on a database that answers the statements of
\* _get_table_schema whenever the table is there
QueryRun(w) == QueryRunDescribing(w, {TRUE})

\* The rest of a query, on a database that may raise at them
QueryRunDescribe(w) == QueryRunDescribing(w, BOOLEAN)

Next ==
    \/ Tick
    \/ \E w \in Workers : UploadBegin(w)
    \/ \E w \in Workers : InsertData(w)
    \/ \E w \in Workers : add_record(w)
    \/ \E w \in Workers : DeleteBegin(w)
    \/ \E w \in Workers : DropTable(w)
    \/ \E w \in Workers : DeleteRecord(w)
    \/ \E w \in Workers : QueryBegin(w)
    \/ \E w \in Workers : QueryRun(w)

Spec == Init /\ [][Next]_vars

\* Uploads, deletes and listings of the stored files, with no questions asked
ListNext ==
    \/ Tick
    \/ \E w \in Workers : UploadBegin(w)
    \/ \E w \in Workers : InsertData(w)
    \/ \E w \in Workers : add_record(w)
    \/ \E w \in Workers : DeleteBegin(w)
    \/ \E w \in Workers : DropTable(w)
    \/ \E w \in Workers : DeleteRecord(w)
    \/ \E w \in Workers : ListFiles(w)

ListSpec == Init /\ [][ListNext]_vars

(***************************************************************************)
(* Queries in every mode, on a database that holds one upload of the first *)
(* user: the state after UploadBegin, InsertData, add_record and Tick.     *)
(***************************************************************************)
StoredUpload ==
    [IdleProc EXCEPT !.kind = "upload", !.id = 1, !.user = "u1",
                     !.file = [stem |-> <<"a">>, ext |-> ".xlsx", pre |-> 0,
                               cols |-> NameAmount, nrows |-> MaxRows, bad |-> 0],
                     !.table_name = TableName(<<"a">>, 0), !.columns = NameAmount,
                     !.len = MaxRows, !.rows_inserted = MaxRows]

QueryInit ==
    /\ clock = 1
    /\ nextId = 2
    /\ tables = {[name |-> StoredUpload.table_name, creator |-> 1,
                  columns |-> Range(SanitizedColumns(NameAmount)),
                  rows |-> RowsOf(StoredUpload, MaxRows)]}
    /\ records = {[UploadRecord(StoredUpload) EXCEPT !.created_at = 0]}
    /\ users = {}
    /\ proc = [w \in Workers |-> IdleProc]
    /\ last = IdleProc

QueryNext ==
    \/ \E w \in Workers : QueryWithMode(w)
    \/ \E w \in Workers : QueryRun(w)

QuerySpec == QueryInit /\ [][QueryNext]_vars

(***************************************************************************)
(* Questions racing the deletion of the file they are about: the database  *)
(* holds one upload of the first user, made before the requests counted by *)
(* nextId.                                                                 *)
(***************************************************************************)
EarlierUpload == [StoredUpload EXCEPT !.id = MaxOps]

DescribeInit ==
    /\ clock = 1
    /\ nextId = 1
    /\ tables = {[name |-> EarlierUpload.table_name, creator |-> EarlierUpload.id,
                  columns |-> Range(SanitizedColumns(NameAmount)),
                  rows |-> RowsOf(EarlierUpload, MaxRows)]}
    /\ records = {[UploadRecord(EarlierUpload) EXCEPT !.created_at = 0]}
    /\ users = {}
    /\ proc = [w \in Workers |-> IdleProc]
    /\ last = IdleProc

DescribeNext ==
    \/ \E w \in Workers : DeleteBegin(w)
    \/ \E w \in Workers : DropTable(w)
    \/ \E w \in Workers : DeleteRecord(w)
    \/ \E w \in Workers : QueryBegin(w)
    \/ \E w \in Workers : QueryRunDescribe(w)

DescribeSpec == DescribeInit /\ [][DescribeNext]_vars

(***************************************************************************)
(* Name derivation on its own: the identifiers upload_excel_service (line  *)
(* 267) and _create_dynamic_table (line 68) derive from a file stem or a   *)
(* column label, and from an identifier derived before.                    *)
(***************************************************************************)
MaxNameLen == 3

NameChars == {"a", "B", "1", "_", "-"}

ShortNames == UNION {[1..n -> NameChars] : n \in 0..MaxNameLen}

Repeat(c, n) == [i \in 1..n |-> c]

\* Names around the length at which line 49 starts to cut
LongNames ==
    {Repeat(c, MaxIdentLen - 1) \o t : c \in {"a", "1"}, t \in {x \in ShortNames : Len(x) <= 2}}

SanInputs == ShortNames \cup LongNames

\* line 265-267: the table name for a file with stem x
NameTable(x) ==
    /\ last' = [IdleProc EXCEPT !.kind = "sanitize", !.pc = "table",
                                !.file = [NoFile EXCEPT !.stem = x],
                                !.table_name = TableName(x, clock)]
    /\ UNCHANGED <<clock, nextId, tables, records, proc, users>>

\* line 68: the column identifier for a label x
NameColumn(x) ==
    /\ last' = [IdleProc EXCEPT !.kind = "sanitize", !.pc = "column",
                                !.file = [NoFile EXCEPT !.cols = <<x>>],
                                !.columns = SanitizedColumns(<<x>>)]
    /\ UNCHANGED <<clock, nextId, tables, records, proc, users>>

\* the identifier derived for a table, used as a stem in its turn
RenameTable ==
    /\ last.kind = "sanitize" /\ last.pc = "table"
    /\ last' = [last EXCEPT !.pc = "table_again",
                            !.file = [NoFile EXCEPT !.stem = last.table_name[2]],
                            !.table_name = TableName(last.table_name[2], clock)]
    /\ UNCHANGED <<clock, nextId, tables, records, proc, users>>

\* the identifier derived for a column, used as a label in its turn
RenameColumn ==
    /\ last.kind = "sanitize" /\ last.pc = "column"
    /\ last' = [last EXCEPT !.pc = "column_again",
                            !.file = [NoFile EXCEPT !.cols = last.columns],
                            !.columns = SanitizedColumns(last.columns)]
    /\ UNCHANGED <<clock, nextId, tables, records, proc, users>>

SanNext ==
    \/ \E x \in SanInputs : NameTable(x)
    \/ \E x \in SanInputs : NameColumn(x)
    \/ RenameTable
    \/ RenameColumn

SanSpec == Init /\ [][SanNext]_vars

(***************************************************************************)
(* _execute_sql_query on the text of a statement                           *)
(***************************************************************************)
\* `k in s` on strings
Contains(s, k) == \E i \in 0..(Len(s) - Len(k)) : SubSeq(s, i + 1, i + Len(k)) = k

\* lines 586-589: the keywords looked for in the lowered text
aggregation_keywords ==
    { <<"s","u","m","(">>, <<"a","v","g","(">>, <<"c","o","u","n","t","(">>, <<"m","a","x","(">>, <<"m","i","n","(">>,
      <<"g","r","o","u","p"," ","b","y">>, <<"h","a","v","i","n","g">>, <<"p","e","r","c","e","n","t","a","g","e">> }

is_aggregation(sql) == \E k \in aggregation_keywords : Contains(Lower(sql), k)

\* lines 592 and 595: 'limit' in sql_lower
limit_in_text(sql) == Contains(Lower(sql), <<"l","i","m","i","t">>)

\* str.rstrip(';')
RECURSIVE RStripSemicolon(_)
RStripSemicolon(s) ==
    IF s # <<>> /\ s[Len(s)] = ";" THEN RStripSemicolon(SubSeq(s, 1, Len(s) - 1)) ELSE s

DigitOf == <<"0","1","2","3","4","5","6","7","8","9">>

\* str(n) for a natural number
RECURSIVE Digits(_)
Digits(n) == IF n < 10 THEN <<DigitOf[n + 1]>> ELSE Digits(n \div 10) \o <<DigitOf[(n % 10) + 1]>>

\* The select lists of the statements: row listings, one per aggregate
\* function as the language model writes them, and columns whose names hold
\* a keyword
RowProjections ==
    { <<"*">>, <<"c",","," ","f">>, <<"s","p","e","e","d","_","l","i","m","i","t">> }

AggregateProjections ==
    { <<"c",","," ","S","U","M","(","f",")">>, <<"A","V","G","(","f",")">>, <<"C","o","u","n","t","(","*",")">>, <<"m","a","x","(","f",")">>, <<"M","I","N","(","f",")">>,
      <<"f"," ","A","S"," ","P","e","r","c","e","n","t","a","g","e">> }

NoClause == <<>>

GroupClauses == { <<" ","G","R","O","U","P"," ","B","Y"," ","c">>, <<" ","H","a","v","i","n","g"," ","f">> }

\* 0: the statement has no LIMIT clause
MaxOwnLimit == 500

OwnLimits == {0, 2, MaxOwnLimit}

Statements ==
    [proj : RowProjections \cup AggregateProjections, clause : {NoClause} \cup GroupClauses,
     own_limit : OwnLimits, semicolon : BOOLEAN]

\* The text of a statement
SqlText(stmt) ==
    <<"S","E","L","E","C","T"," ">> \o stmt.proj \o <<" ","F","R","O","M"," ","t">> \o stmt.clause
    \o (IF stmt.own_limit = 0 THEN <<>> ELSE <<" ","L","I","M","I","T"," ">> \o Digits(stmt.own_limit))
    \o (IF stmt.semicolon THEN <<";">> ELSE <<>>)

\* What lines 586-597 see of a statement
StatementOf(stmt) ==
    [verb |-> "select", target |-> <<"t">>, agg |-> is_aggregation(SqlText(stmt)),
     limit_word |-> limit_in_text(SqlText(stmt)), limit_clause |-> stmt.own_limit # 0,
     open_comment |-> FALSE]

\* lines 592-597: the text handed to db.execute
executed_sql(sql, top_k) ==
    LET n == AppendedLimit([agg |-> is_aggregation(sql), limit_word |-> limit_in_text(sql)],
                           top_k)
    IN  IF n = 0 THEN sql ELSE RStripSemicolon(sql) \o <<" ","L","I","M","I","T"," ">> \o Digits(n)

ExecTopKs == {1, 5}

MaxProduced == 150

\* The numbers of rows a statement matches before any LIMIT
ProducedRows == {0, 3, MaxProduced}

\* The rows the statement gives as it is written
ProducedAsWritten(stmt, produced) ==
    IF stmt.own_limit = 0 THEN produced ELSE Min(produced, stmt.own_limit)

\* A call of _execute_sql_query: a statement, a row cap, the rows the
\* statement matches and whether the database raises
ExecCalls ==
    {[IdleProc EXCEPT !.kind = "execute", !.pc = "call", !.sql = stmt, !.top_k = top_k,
                      !.matched = produced, !.exec_raised = ~ok] :
        stmt \in Statements, top_k \in ExecTopKs, produced \in ProducedRows, ok \in BOOLEAN}

\* The Python types of the values a pymysql row holds (DATETIME, DATE, TIME
\* as time and timedelta, integers, BOOL, DOUBLE, DECIMAL, TEXT, BLOB, NULL),
\* and "object" for a value of a class that carries a __dict__
PyTypes ==
    {"datetime", "date", "time", "timedelta", "int", "bool", "float", "Decimal",
     "str", "bytes", "NoneType", "object"}

DbValues == [type : PyTypes, v : {0, 1}]

\* isinstance(value, datetime): a date is not a datetime
isinstance_datetime(value) == value.type = "datetime"

\* hasattr(value, '__dict__'): none of the built-in types has one, nor has
\* decimal.Decimal
has_dict(value) == value.type = "object"

\* isinstance(value, (int, float)): bool is a subclass of int, Decimal is not
isinstance_int_float(value) == value.type \in {"int", "bool", "float"}

\* lines 609-617: the value stored in the result row
normalize_value(value) ==
    IF isinstance_datetime(value) THEN [type |-> "str", v |-> value.v]
    ELSE IF has_dict(value) THEN [type |-> "str", v |-> value.v]
    ELSE IF isinstance_int_float(value)
    THEN IF value.type \in {"float", "Decimal"} THEN [type |-> "float", v |-> value.v]
         ELSE [type |-> "int", v |-> value.v]
    ELSE value

\* The values of a fetched row, one at a time
ValueCalls == {[kind |-> "normalize", pc |-> "call", value |-> x, res |-> x] : x \in DbValues}

ExecInit ==
    /\ clock = 0
    /\ nextId = 1
    /\ tables = {}
    /\ records = {}
    /\ users = {}
    /\ proc = [w \in Workers |-> IdleProc]
    /\ last \in ExecCalls \cup ValueCalls

\* _execute_sql_query, lines 583-623
ExecuteStatement ==
    /\ last.kind = "execute" /\ last.pc = "call"
    /\ last' = [last EXCEPT
                  !.pc = "done",
                  !.res = [is_aggregation |-> is_aggregation(SqlText(last.sql)),
                           executed |-> executed_sql(SqlText(last.sql), last.top_k),
                           results |-> execute_sql_query(~last.exec_raised,
                                          StatementOf(last.sql), last.top_k,
                                          ProducedAsWritten(last.sql, last.matched))]]
    /\ UNCHANGED <<clock, nextId, tables, records, proc, users>>

\* lines 607-618 on one value of a row
NormalizeValue ==
    /\ last.kind = "normalize" /\ last.pc = "call"
    /\ last' = [last EXCEPT !.pc = "done", !.res = normalize_value(last.value)]
    /\ UNCHANGED <<clock, nextId, tables, records, proc, users>>

ExecNext ==
    \/ ExecuteStatement
    \/ NormalizeValue

ExecSpec == ExecInit /\ [][ExecNext]_vars

(***************************************************************************)
(* _generate_visualization_data on the rows of a result                    *)
(***************************************************************************)
\* The values of a row after _execute_sql_query: int, Decimal, str or None
IntCell(n) == [type |-> "int", n |-> n, t |-> <<>>]

DecimalCell(n) == [type |-> "Decimal", n |-> n, t |-> <<>>]

StrCell(t) == [type |-> "str", n |-> 0, t |-> t]

NoneCell == [type |-> "NoneType", n |-> 0, t |-> <<>>]

\* s.replace(c, '') for every c of chars
RemoveChars(t, chars) == SelectSeq(t, LAMBDA c : c \notin chars)

\* The value of a text of digits
RECURSIVE DigitsValue(_)
DigitsValue(t) ==
    IF t = <<>> THEN 0
    ELSE 10 * DigitsValue(SubSeq(t, 1, Len(t) - 1))
         + (CHOOSE d \in 0..9 : DigitOf[d + 1] = t[Len(t)])

IsDigits(t) == t # <<>> /\ \A i \in DOMAIN t : t[i] \in DigitChars

\* float(t) for the texts of the model: digits with an optional sign and
\* white space around give their number, any other text raises ValueError
ParseFloat(t) ==
    LET u == StripWs(t) IN
    IF IsDigits(u) THEN [ok |-> TRUE, v |-> DigitsValue(u)]
    ELSE IF u # <<>> /\ Head(u) = "-" /\ IsDigits(Tail(u))
    THEN [ok |-> TRUE, v |-> 0 - DigitsValue(Tail(u))]
    ELSE [ok |-> FALSE, v |-> 0]

\* float(cleaned) if cleaned else 0, and 0 when float raises
FloatOrZero(cleaned) ==
    IF cleaned = <<>> THEN 0
    ELSE IF ParseFloat(cleaned).ok THEN ParseFloat(cleaned).v ELSE 0

\* isinstance(val, (int, float))
is_number(cell) == cell.type \in {"int", "float"}

\* hasattr(val, '__float__')
has_float(cell) == cell.type \in {"int", "float", "Decimal"}

\* lines 695-715: the number taken from a value of the value column
numeric_val(cell) ==
    IF cell.type = "NoneType" THEN 0
    ELSE IF is_number(cell) THEN cell.n
    ELSE IF has_float(cell) THEN cell.n
    ELSE IF cell.type = "str"
    THEN FloatOrZero(StripWs(RemoveChars(cell.t, {",", "₹", "$", " "})))
    ELSE 0

\* lines 745-762: the number taken from a value of the column found instead
reextracted_val(cell) ==
    IF is_number(cell) THEN cell.n
    ELSE IF has_float(cell) THEN cell.n
    ELSE IF cell.type = "str"
    THEN FloatOrZero(StripWs(RemoveChars(cell.t, {",", "₹", "$"})))
    ELSE 0

\* lines 805-812 and 833-841: the number taken in the two other branches
plain_val(cell) ==
    IF is_number(cell) THEN cell.n
    ELSE IF cell.type = "str"
    THEN IF ParseFloat(StripWs(RemoveChars(cell.t, {",", "₹"}))).ok
         THEN ParseFloat(StripWs(RemoveChars(cell.t, {",", "₹"}))).v ELSE 0
    ELSE 0

\* str(value) of a label
StrOf(cell) ==
    IF cell.type = "str" THEN cell.t
    ELSE IF cell.type = "NoneType" THEN <<"N","o","n","e">>
    ELSE IF cell.n < 0 THEN <<"-">> \o Digits(0 - cell.n) ELSE Digits(cell.n)

\* line 690: a NULL label becomes the empty text
label_of(cell) == IF cell.type = "NoneType" THEN <<>> ELSE StrOf(cell)

\* lines 736-740: the numbers of a column tried for the value column
test_values(column) ==
    LET cells == SelectSeq(column, LAMBDA c : is_number(c) \/ has_float(c))
    IN  [i \in DOMAIN cells |-> cells[i].n]

\* any(v > 0 for v in values) without the strictness
any_positive_NonZero(values) == \E i \in DOMAIN values : values[i] # 0

\* lines 741 and 779: any(v > 0 for v in values)
any_positive(values) == \E i \in DOMAIN values : values[i] > 0

NoVisualization == [chart_type |-> "none"]

\* chart_type_of with the test of the category name first
chart_type_of_LineFirst(sql_percentage, question_percent, category_key) ==
    IF Contains(Lower(category_key), <<"t","i","m","e">>) \/ Contains(Lower(category_key), <<"d","a","t","e">>)
    THEN "line_chart"
    ELSE IF sql_percentage \/ question_percent THEN "pie_chart"
    ELSE "bar_chart"

\* lines 771-776
chart_type_of(sql_percentage, question_percent, category_key) ==
    IF sql_percentage \/ question_percent THEN "pie_chart"
    ELSE IF Contains(Lower(category_key), <<"t","i","m","e">>) \/ Contains(Lower(category_key), <<"d","a","t","e">>)
    THEN "line_chart"
    ELSE "bar_chart"

\* lines 643-793: the rows of a GROUP BY statement with two columns or more.
\* keys are the column names and columns the values under them, row by row.
grouped_chart(in) ==
    LET keys == in.keys
        columns == in.columns
        labels == [i \in DOMAIN columns[1] |-> label_of(columns[1][i])]
        first_values == [i \in DOMAIN columns[2] |-> numeric_val(columns[2][i])]
        all_zero == \A i \in DOMAIN first_values : first_values[i] = 0
        candidates == {k \in 2..Len(keys) :
                          /\ test_values(columns[k]) # <<>>
                          /\ any_positive(test_values(columns[k]))}
        found == IF all_zero /\ candidates # {}
                 THEN CHOOSE k \in candidates : \A j \in candidates : k <= j
                 ELSE 0
        values == IF found = 0 THEN first_values
                  ELSE [i \in DOMAIN columns[found] |-> reextracted_val(columns[found][i])]
        value_key == IF found = 0 THEN 2 ELSE found
    IN  IF Len(labels) > 0 /\ Len(values) > 0 /\ any_positive(values)
        THEN [chart_type |-> chart_type_of(in.sql_percentage, in.question_percent, keys[1]),
              labels |-> labels, values |-> values,
              category_key |-> keys[1], value_key |-> keys[value_key]]
        ELSE NoVisualization

\* lines 796-821: the value of the first column of the first row
single_value_chart(in) ==
    [chart_type |-> "single_value", value |-> plain_val(in.columns[1][1]),
     label |-> in.keys[1]]

\* lines 823-850: the first two columns as they are, or None
default_chart(in) ==
    IF Len(in.keys) >= 2
    THEN [chart_type |-> "bar_chart",
          labels |-> [i \in DOMAIN in.columns[1] |-> StrOf(in.columns[1][i])],
          values |-> [i \in DOMAIN in.columns[2] |-> plain_val(in.columns[2][i])],
          category_key |-> in.keys[1], value_key |-> in.keys[2]]
    ELSE NoVisualization

\* _generate_visualization_data
visualization_data(in) ==
    IF in.columns[1] = <<>> THEN NoVisualization
    ELSE IF in.sql_group_by
    THEN IF Len(in.keys) >= 2 THEN grouped_chart(in) ELSE default_chart(in)
    ELSE IF in.sql_function THEN single_value_chart(in)
    ELSE default_chart(in)

\* The names of the category column
CategoryKeys == { <<"c","i","t","y">>, <<"U","p","l","o","a","d","_","T","i","m","e">>, <<"c","h","a","l","l","a","n","_","d","a","t","e">> }

TotalKey == <<"t","o","t","a","l">>

AmountKey == <<"a","m","o","u","n","t">>

CategoryColumns ==
    { <<StrCell(<<"I","n","d","o","r","e">>), StrCell(<<"M","u","m","b","a","i">>)>>, <<NoneCell, IntCell(7)>> }

\* The value columns of two rows: numbers, zeros, negative numbers, decimals,
\* numbers written as text, texts that are no numbers, NULLs
ValueColumns ==
    { <<IntCell(500), IntCell(300)>>,
      <<IntCell(0), IntCell(0)>>,
      <<IntCell(0 - 5), IntCell(0 - 3)>>,
      <<DecimalCell(0), DecimalCell(7)>>,
      <<DecimalCell(0), DecimalCell(0)>>,
      <<StrCell(<<"₹","1",",","5","0","0">>), StrCell(<<"$"," ","3","0","0">>)>>,
      <<StrCell(<<"0">>), StrCell(<<"a","b","c">>)>>,
      <<StrCell(<<"1"," ","2","0","0">>), StrCell(<<>>)>>,
      <<IntCell(2), StrCell(<<"₹","1",",","5","0","0">>)>>,
      <<NoneCell, NoneCell>> }

\* The results given to the function: no row, or two rows of one, two or
\* three columns
ShapeResults ==
    {[keys |-> <<k>>, columns |-> << <<>> >>] : k \in CategoryKeys}
    \cup {[keys |-> <<k>>, columns |-> <<c>>] : k \in CategoryKeys, c \in CategoryColumns}
    \cup {[keys |-> <<k, TotalKey>>, columns |-> <<c, x>>] :
            k \in CategoryKeys, c \in CategoryColumns, x \in ValueColumns}
    \cup {[keys |-> <<k, TotalKey, AmountKey>>, columns |-> <<c, x, y>>] :
            k \in CategoryKeys, c \in CategoryColumns, x \in ValueColumns, y \in ValueColumns}

\* A call of _generate_visualization_data: the rows, and what the texts of the
\* statement and of the question hold
ShapeCalls ==
    {[kind |-> "shape", pc |-> "call",
      in |-> [keys |-> r.keys, columns |-> r.columns, sql_group_by |-> g,
              sql_function |-> f, sql_percentage |-> pc, question_percent |-> qp],
      res |-> NoVisualization] :
        r \in ShapeResults, g \in BOOLEAN, f \in BOOLEAN, pc \in BOOLEAN, qp \in BOOLEAN}

ShapeInit ==
    /\ clock = 0
    /\ nextId = 1
    /\ tables = {}
    /\ records = {}
    /\ users = {}
    /\ proc = [w \in Workers |-> IdleProc]
    /\ last \in ShapeCalls

GenerateVisualization ==
    /\ last.kind = "shape" /\ last.pc = "call"
    /\ last' = [last EXCEPT !.pc = "done", !.res = visualization_data(last.in)]
    /\ UNCHANGED <<clock, nextId, tables, records, proc, users>>

ShapeNext == GenerateVisualization

ShapeSpec == ShapeInit /\ [][ShapeNext]_vars

(***************************************************************************)
(* request_otp_service and verify_otp_service.  Both are coroutines that   *)
(* never await between their SELECT and their COMMIT, so that one server   *)
(* process runs them one at a time; the processes of a server started with *)
(* several of them share the database only.  Here a worker is a server     *)
(* process and the clock counts minutes.                                   *)
(***************************************************************************)
OTP_EXPIRATION_MINUTES == 5

MaxMinutes == 6

Emails == {"a@x"}

\* The codes generate_otp may draw
Otps == {"111111", "222222"}

UserOf(email) == {u \in users : u.email = email}

\* The table holds one user, whose OTP was issued at minute 0
IssuedUser == [email |-> "a@x", otp |-> "111111", otp_created_at |-> 0, verified |-> 0]

OtpInit ==
    /\ clock = 0
    /\ nextId = 1
    /\ tables = {}
    /\ records = {}
    /\ users = {IssuedUser}
    /\ proc = [w \in Workers |-> IdleProc]
    /\ last = IdleProc

Minute ==
    /\ clock < MaxMinutes
    /\ clock' = clock + 1
    /\ last' = IdleProc
    /\ UNCHANGED <<nextId, tables, records, users, proc>>

\* request_otp_service: store a new code for the user, created if need be
RequestOtp(w) ==
    /\ Free(w)
    /\ \E email \in Emails, otp \in Otps, ok \in BOOLEAN :
        LET p == [IdleProc EXCEPT !.kind = "request_otp", !.id = nextId, !.user = email,
                                  !.otp = otp]
        IN  IF ok
            THEN /\ users' = {u \in users : u.email # email}
                              \cup {[email |-> email, otp |-> otp, otp_created_at |-> clock,
                                     verified |-> 0]}
                 /\ Return(w, p, Success("OTP has been sent to your email address", NoData))
            ELSE /\ users' = users
                 /\ Return(w, [p EXCEPT !.raised_in = "commit"], Failure("error"))
    /\ nextId' = nextId + 1
    /\ UNCHANGED <<clock, tables, records>>

\* verify_otp_service line 67: the row of the user is read
VerifyRead(w) ==
    /\ Free(w)
    /\ \E email \in Emails, otp \in Otps, ok \in BOOLEAN :
        LET p == [IdleProc EXCEPT !.kind = "verify_otp", !.id = nextId, !.user = email,
                                  !.otp = otp]
        IN  IF ~ok
            THEN Return(w, [p EXCEPT !.raised_in = "select"], Failure("error"))
            ELSE IF UserOf(email) = {}
            THEN Return(w, p, Failure("User not found. Please request OTP first."))
            ELSE \E u \in UserOf(email) :
                    /\ proc' = [proc EXCEPT ![w] = [p EXCEPT !.pc = "check", !.row = u]]
                    /\ last' = IdleProc
    /\ nextId' = nextId + 1
    /\ UNCHANGED <<clock, tables, records, users>>

\* user.otp = None; user.otp_created_at = None; db.commit(): the UPDATE of the
\* row read, whatever it holds by now
ClearOtp(row) ==
    {IF u.email = row.email THEN [u EXCEPT !.otp = NoOtp, !.otp_created_at = NoTime] ELSE u :
        u \in users}

\* datetime.utcnow() > otp_created_at + timedelta(minutes=5)
Expired(row, now) ==
    row.otp_created_at # NoTime /\ now > row.otp_created_at + OTP_EXPIRATION_MINUTES

\* ClearOtp counting the verification
Verified(row) ==
    {IF u.email = row.email THEN [u EXCEPT !.verified = @ + 1] ELSE u : u \in ClearOtp(row)}

\* verify_otp_service lines 76-113: the code is compared with the row read,
\* the row is cleared and committed
VerifyCheck(w) ==
    /\ proc[w].kind = "verify_otp" /\ proc[w].pc = "check"
    /\ LET p == proc[w]
           row == p.row
       IN  IF row.otp = NoOtp
           THEN /\ users' = users
                /\ Return(w, p, Failure("No OTP found. Please request a new OTP."))
           ELSE IF row.otp # p.otp
           THEN /\ users' = users
                /\ Return(w, p, Failure("Invalid OTP. Please try again."))
           ELSE \E ok \in BOOLEAN :
                IF ~ok
                THEN /\ users' = users
                     /\ Return(w, [p EXCEPT !.raised_in = "commit"], Failure("error"))
                ELSE IF Expired(row, clock)
                THEN /\ users' = ClearOtp(row)
                     /\ Return(w, p, Failure("OTP has expired. Please request a new OTP."))
                ELSE /\ users' = Verified(row)
                     /\ Return(w, p, Success("OTP verified successfully",
                                             [email |-> row.email]))
    /\ UNCHANGED <<clock, nextId, tables, records>>

OtpNext ==
    \/ Minute
    \/ \E w \in Workers : RequestOtp(w)
    \/ \E w \in Workers : VerifyRead(w)
    \/ \E w \in Workers : VerifyCheck(w)

OtpSpec == OtpInit /\ [][OtpNext]_vars

(***************************************************************************)
(* Properties                                                              *)
(***************************************************************************)
Returned(kind) == last.pc = "done" /\ last.kind = kind

OwnRows(t, id) == {row \in t.rows : row.upload = id}

C2_DistinctTables ==
    /\ \A v, w \in Workers :
         (v # w /\ proc[v].kind = "upload" /\ proc[w].kind = "upload")
         => proc[v].table_name # proc[w].table_name
    /\ \A w \in Workers :
         (proc[w].kind = "upload" /\ TableExists(proc[w].table_name))
         => TableOf(proc[w].table_name).creator = proc[w].id
    /\ \A t \in tables : \A row \in t.rows : row.upload = t.creator

Quiescent == \A w \in Workers : proc[w].pc = "idle"

\* C3 (as stated): once every upload and delete has completed, each dynamic
\* table is named by exactly one record and each record names an existing
\* table.
C3_OneToOne ==
    Quiescent
    => /\ \A t \in tables : Cardinality({r \in records : r.table_name = t.name}) = 1
       /\ \A r \in records : TableExists(r.table_name)

\* C4 (as stated): no step of a query changes a dynamic table or a record.
C4_QueryReadOnly ==
    [][ (\/ last'.pc = "done" /\ last'.kind = "query"
         \/ \E w \in Workers : proc'[w] # proc[w] /\ proc'[w].kind = "query")
        => (tables' = tables /\ records' = records) ]_vars

\* C5: the batch of an upload is all-or-nothing.  No row of an upload is in
\* any table while its batch is open; after the commit a table holds all its
\* rows or (dropped or emptied since) none; when an INSERT or the commit
\* raised, none of its rows is stored, the upload returns status=false with
\* the error and has no record.
C5_AllOrNothing ==
    /\ \A w \in Workers : \A t \in tables :
         /\ proc[w].pc = "insert" => OwnRows(t, proc[w].id) = {}
         /\ proc[w].pc = "record" =>
              Cardinality(OwnRows(t, proc[w].id)) \in {0, proc[w].len}
    /\ (Returned("upload") /\ last.raised_in = "insert")
         => /\ \A t \in tables : OwnRows(t, last.id) = {}
            /\ ~last.res.status
            /\ last.res.message = "Error processing file"
            /\ \A r \in records : r.id # last.id

\* C5 witness: a batch failed after some of its rows had been written
C5_Witness ==
    /\ Returned("upload") /\ last.raised_in = "insert" /\ last.pending >= 1
    /\ TableExists(last.table_name)

\* C6: when CREATE TABLE raises, the upload stops there: it never goes on to
\* insert, it returns status=false with the creation message, it has created
\* no table, stored no row and no record.
C6_CreateFailureStops ==
    /\ \A w \in Workers : proc[w].kind = "upload" => ~proc[w].create_raised
    /\ (Returned("upload") /\ last.create_raised)
         => /\ ~last.res.status
            /\ last.res.message = "Failed to create database table"
            /\ \A t \in tables : t.creator # last.id /\ OwnRows(t, last.id) = {}
            /\ \A r \in records : r.id # last.id

\* C6 witness: an upload returned because its table could not be created
C6_Witness ==
    Returned("upload") /\ last.create_raised /\ last.len >= 1

\* C7 (as stated): an upload or delete that returns a failure envelope after
\* an exception has left nothing behind: no table it created, no row and no
\* record of its own, no table dropped.
C7_FailureRollsBack ==
    (last.pc = "done" /\ ~last.res.status
       /\ last.raised_in \in {"insert", "record", "del_record"})
    => /\ last.kind = "upload"
            => /\ \A t \in tables : t.creator # last.id /\ OwnRows(t, last.id) = {}
               /\ \A r \in records : r.id # last.id
       /\ last.kind = "delete" => ~last.table_dropped

OwnedBy(file_id, user) == \E r \in records : r.id = file_id /\ r.user_id = user

OwnedTable(name, user) == \E r \in records : r.table_name = name /\ r.user_id = user

\* C8: a delete for a dataset the caller does not own goes no further than
\* the lookup: it returns status=false with the not-found-or-no-permission
\* message and leaves every record and every dynamic table as they were.
C8_ForeignDeleteRefused ==
    [][ /\ \A w \in Workers :
             (proc[w].pc = "idle" /\ proc'[w].kind = "delete")
             => OwnedBy(proc'[w].file_id, proc'[w].user)
        /\ (last'.pc = "done" /\ last'.kind = "delete"
              /\ ~OwnedBy(last'.file_id, last'.user) /\ proc' = proc)
             => /\ ~last'.res.status
                /\ last'.res.message = "File not found or you don't have permission to delete it"
                /\ tables' = tables /\ records' = records
      ]_vars

\* C8 witness: a user was refused the delete of a record of another user,
\* whose record and table with its rows are there
C8_Witness ==
    /\ Returned("delete") /\ ~last.res.status
    /\ \E r \in records :
         /\ r.id = last.file_id /\ r.user_id # last.user
         /\ \E t \in tables : t.name = r.table_name /\ t.rows # {}

\* C9: a failed DROP does not stop the delete.  The delete goes on to the
\* record; it fails only when deleting the record raises; when it returns
\* status=true the record is gone and table_dropped tells whether the DROP
\* succeeded.
C9_DropIsBestEffort ==
    /\ \A w \in Workers :
         (proc[w].kind = "delete" /\ proc[w].drop_raised) => proc[w].pc = "del_record"
    /\ (Returned("delete") /\ last.table_name # NoName)
         => /\ ~last.res.status => last.raised_in = "del_record"
            /\ last.res.status
                 => /\ last.res.data.table_dropped = ~last.drop_raised
                    /\ \A r \in records : r.id # last.file_id

\* C9 witness: the DROP failed, the record was deleted, the table is still there
C9_Witness ==
    /\ Returned("delete") /\ last.res.status /\ last.drop_raised
    /\ ~last.res.data.table_dropped
    /\ TableExists(last.table_name)

NothingResolved(p) == p.res.message \in
    {"Table not found or you don't have permission to access it",
     "No Excel file has been uploaded yet"}

ResolveReturned == last'.pc = "done" /\ last'.kind = "query" /\ proc' = proc

\* C11 (as stated): a query naming a table recorded for another user fails
\* with a message other than the one returned for a name no record carries.
C11_ForeignDistinctFromMissing ==
    [][ (ResolveReturned /\ last'.tn_arg # NoName /\ last'.raised_in # "resolve"
           /\ \E r \in records : r.table_name = last'.tn_arg /\ r.user_id # last'.user)
        => /\ ~last'.res.status
           /\ last'.res.message # table_not_resolved(last'.user, UnknownName)
      ]_vars

\* C11 (amended): a query naming a table the caller has no record of does not
\* run: it fails with status=false and one and the same message, whether a
\* record of another user names that table or no record does; that message
\* differs from the one for a caller without uploads.
C11_ForeignSameAsMissing ==
    [][ /\ \A w \in Workers :
             (proc[w].pc = "idle" /\ proc'[w].kind = "query" /\ proc'[w].tn_arg # NoName)
             => OwnedTable(proc'[w].tn_arg, proc'[w].user)
        /\ (ResolveReturned /\ last'.tn_arg # NoName /\ last'.raised_in # "resolve"
              /\ ~OwnedTable(last'.tn_arg, last'.user))
             => /\ ~last'.res.status
                /\ last'.res.message = "Table not found or you don't have permission to access it"
                /\ last'.res.message # table_not_resolved(last'.user, NoName)
      ]_vars

\* C11 witness: the table asked for exists with rows and is recorded for
\* another user
C11_Witness ==
    /\ Returned("query") /\ ~last.res.status /\ last.tn_arg # NoName
    /\ \E r \in records : r.table_name = last.tn_arg /\ r.user_id # last.user
    /\ \E t \in tables : t.name = last.tn_arg /\ t.rows # {}


\* A query returned after its translation step ended without a statement
TranslationFailed == Returned("query") /\ last.gen \notin {"", "sql"}

\* C12: when translation yields no SQL (no key, configure raises, no model
\* initializes, the call raises, the response is empty or blank), the query
\* returns status=false with one of the two explicit messages, and neither
\* the executor nor the answer generator was called for it; the executor is
\* only ever called with a generated statement.
C12_NoSqlNoExecution ==
    /\ TranslationFailed
         => /\ ~last.res.status
            /\ last.res.message \in {"GEMINI_KEY not found in environment variables",
                                      "Failed to generate SQL query"}
            /\ last.sql = NoSql
            /\ ~last.executed /\ ~last.answered
    /\ (Returned("query") /\ (last.executed \/ last.answered))
         => last.gen = "sql" /\ last.sql # NoSql

\* C12 witness: with a key configured the model answered nothing, for a
\* query on a table that has rows
C12_Witness ==
    /\ TranslationFailed /\ last.gen = "empty" /\ last.key[1]
    /\ \E t \in tables : t.name = last.table_name /\ t.rows # {}

\* C13 (as stated): when translation fails the message names the missing
\* credential exactly when no key is configured, neither at import time nor
\* in the environment at call time; otherwise it is the failed-to-generate one.
C13_CredentialMessage ==
    TranslationFailed
    => /\ last.res.message = "GEMINI_KEY not found in environment variables"
            <=> ~(last.key[1] \/ last.key[2])
       /\ (last.key[1] \/ last.key[2])
            => last.res.message = "Failed to generate SQL query"

\* C14: when execution raises, the executor returns no rows and the query
\* returns status=true with no results, the very response of a statement
\* that ran and matched no row.
C14_ExecutionErrorIsEmptySuccess ==
    /\ (Returned("query") /\ last.exec_raised)
         => /\ last.res.status
            /\ last.res.data.results = 0
            /\ last.res = query_response(last, last.sql, 0)
    /\ (Returned("query") /\ last.executed /\ ~last.exec_raised /\ last.matched = 0)
         => last.res = query_response(last, last.sql, 0)

\* C14 witness: a SELECT on a table with rows raised
C14_Witness ==
    /\ Returned("query") /\ last.exec_raised /\ last.sql.verb = "select"
    /\ \E t \in tables : t.name = last.sql.target /\ t.rows # {}

\* C15: a statement classified as row-listing returns at most top_k rows,
\* whatever number matched and whatever LIMIT it carries itself.
C15_RowCap ==
    (Returned("query") /\ last.executed /\ ~last.sql.agg)
    => last.res.status /\ last.res.data.results <= last.top_k

\* C15 witness: a listing with a LIMIT clause of its own matched more rows
\* than top_k and returned top_k of them
C15_Witness ==
    /\ Returned("query") /\ last.executed /\ ~last.sql.agg /\ last.sql.limit_clause
    /\ last.matched > last.top_k
    /\ last.res.data.results = last.top_k


\* The identifier a name derivation returned, and the name it was given
SanOutput == IF last.pc \in {"table", "table_again"} THEN last.table_name[2] ELSE last.columns[1]

SanInput == IF last.pc \in {"table", "table_again"} THEN last.file.stem ELSE last.file.cols[1]

\* ^[a-z][a-z0-9_]*$, at most 64 characters
ValidIdentifier(s) ==
    /\ s # <<>>
    /\ Len(s) <= MaxIdentLen
    /\ s[1] \in Range(LowerChars)
    /\ \A i \in DOMAIN s : s[i] \in Range(LowerChars) \cup DigitChars \cup {"_"}

\* C16 (as stated): for every name, the empty one included, and both kinds,
\* sanitize returns a non-empty identifier of at most 64 characters matching
\* ^[a-z][a-z0-9_]*$.
C16_AlwaysValidIdentifier ==
    last.kind = "sanitize" => ValidIdentifier(SanOutput)

\* C17 (as stated): sanitizing an identifier that sanitize returned gives it
\* back unchanged, for names longer than 64 characters too.
C17_Idempotent ==
    (last.kind = "sanitize" /\ last.pc \in {"table_again", "column_again"})
    => SanOutput = SanInput


\* The frame parsed from a file has no row or no column
EmptyContent(f) ==
    /\ f.ext \in SupportedExts /\ ~ReadFile(f).raised
    /\ (ReadFile(f).len = 0 \/ ReadFile(f).columns = <<>>)

\* C19: input validation failures have no side effects.  An upload with an
\* unsupported extension or whose parsed content has no row or no column, and
\* a query that is empty or white space only, return status=false with a
\* message in the step that receives them, leaving every table, row and
\* record as it was; no such request gets any further.
C19_ValidationNoSideEffects ==
    [][ /\ \A w \in Workers :
             /\ (proc[w].pc = "idle" /\ proc'[w].kind = "upload")
                  => /\ proc'[w].file.ext \in {".csv", ".xlsx", ".xls"}
                     /\ ~EmptyContent(proc'[w].file)
                     /\ proc'[w].len >= 1 /\ proc'[w].columns # <<>>
             /\ (proc[w].pc = "idle" /\ proc'[w].kind = "query")
                  => proc'[w].query \notin {<<>>, <<" ">>}
        /\ (last'.pc = "done" /\ last'.kind = "upload"
              /\ (last'.file.ext \notin {".csv", ".xlsx", ".xls"} \/ EmptyContent(last'.file)))
             => /\ ~last'.res.status
                /\ last'.res.message \in {"Unsupported file format",
                                          "File is empty after processing"}
                /\ last'.res.message = "Unsupported file format"
                     <=> last'.file.ext \notin {".csv", ".xlsx", ".xls"}
                /\ last'.raised_in = ""
                /\ tables' = tables /\ records' = records
        /\ (last'.pc = "done" /\ last'.kind = "query" /\ last'.query \in {<<>>, <<" ">>})
             => /\ ~last'.res.status
                /\ last'.res.message = "Query cannot be empty"
                /\ tables' = tables /\ records' = records
      ]_vars

\* C19 witness: with an upload stored, a CSV without any challan column was
\* turned down as empty
C19_Witness ==
    /\ Returned("upload") /\ last.file.ext = ".csv" /\ EmptyContent(last.file)
    /\ last.res.message = "File is empty after processing"
    /\ records # {} /\ \E t \in tables : t.rows # {}


\* C18 (as stated): the response of a graph query never carries a chart of
\* labels and values whose values are all zero, and carries no chart of
\* labels and values when the value column holds no positive number.
C18_NoAllZeroChart ==
    (Returned("query") /\ last.res.status
       /\ last.res.data.visualization_data.kind = "labels_values")
    => /\ ~last.res.data.visualization_data.all_zero
       /\ last.shape.positive

\* A mode value that is none of text, graph, table in any letter case
Unrecognized(mode) ==
    Lower(mode) \notin {<<"t","e","x","t">>, <<"g","r","a","p","h">>, <<"t","a","b","l","e">>}

\* C20: the mode a query runs in is text, graph or table: the value sent in
\* any letter case, or text when it is missing or unrecognized.  The response
\* reports that mode; it carries visualization_data only in graph mode and
\* table_data only in table mode, so neither for a missing or unrecognized
\* value.
C20_EffectiveMode ==
    /\ \A w \in Workers : proc[w].kind = "query"
         => /\ proc[w].mode \in {<<"t","e","x","t">>, <<"g","r","a","p","h">>, <<"t","a","b","l","e">>}
            /\ Unrecognized(proc[w].mode_arg) => proc[w].mode = <<"t","e","x","t">>
            /\ ~Unrecognized(proc[w].mode_arg) => proc[w].mode = Lower(proc[w].mode_arg)
    /\ (Returned("query") /\ last.res.status)
         => /\ last.res.data.mode \in {<<"t","e","x","t">>, <<"g","r","a","p","h">>, <<"t","a","b","l","e">>}
            /\ Unrecognized(last.mode_arg) => last.res.data.mode = <<"t","e","x","t">>
            /\ ~Unrecognized(last.mode_arg) => last.res.data.mode = Lower(last.mode_arg)
            /\ last.res.data.visualization_data # NoChart
                 => last.res.data.mode = <<"g","r","a","p","h">>
            /\ last.res.data.table_data => last.res.data.mode = <<"t","a","b","l","e">>
            /\ Unrecognized(last.mode_arg)
                 => /\ last.res.data.visualization_data = NoChart
                    /\ ~last.res.data.table_data

\* C20 witness: a query sent with an unknown mode value returned rows
C20_Witness ==
    /\ Returned("query") /\ last.res.status
    /\ last.mode_arg = <<"p","i","e">>
    /\ last.res.data.results >= 1


\* C21: a listing that succeeds returns the records of the caller, each once,
\* none of another user and none that is no longer stored, none before a
\* newer one, with total_count the number of entries; it changes nothing and
\* fails only when the lookup raises.
C21_ListIsCallersRecords ==
    [][ (last'.pc = "done" /\ last'.kind = "list")
        => /\ tables' = tables /\ records' = records
           /\ ~last'.res.status => last'.raised_in = "list"
           /\ last'.res.status =>
                LET files == last'.res.data.files IN
                /\ {files[i].id : i \in DOMAIN files}
                     = {r.id : r \in {x \in records : x.user_id = last'.user}}
                /\ \A i \in DOMAIN files : \E r \in records :
                     /\ r.user_id = last'.user /\ r.id = files[i].id
                     /\ r.table_name = files[i].table_name
                     /\ r.row_count = files[i].row_count
                /\ \A i, j \in DOMAIN files : i # j => files[i].id # files[j].id
                /\ \A i, j \in DOMAIN files :
                     i < j => files[i].created_at >= files[j].created_at
                /\ last'.res.data.total_count = Len(files)
      ]_vars

\* C21 witness: a user's listing shows the one upload of theirs while another
\* user has an upload too
C21_Witness ==
    /\ Returned("list") /\ last.res.status /\ last.res.data.total_count = 1
    /\ \E r \in records : r.user_id # last.user


\* C22: the labels of one upload map to identifiers one to one: two different
\* labels never give the same column identifier, so that creating the table
\* never fails on a column named twice.
C22_ColumnNamesOneToOne ==
    Returned("upload") =>
        \A i, j \in DOMAIN last.columns :
            last.columns[i] # last.columns[j]
                => sanitize_column_name(last.columns[i]) # sanitize_column_name(last.columns[j])

\* C22 counterexample: the labels 'A B' and 'A-B' of one file both become a_b,
\* the CREATE TABLE is rejected and the upload fails
C22_DuplicateIdentifier ==
    /\ Returned("upload")
    /\ last.columns = <<LabelASpaceB, LabelADashB>>
    /\ sanitize_column_name(LabelASpaceB) = <<"a","_","b">>
    /\ sanitize_column_name(LabelADashB) = <<"a","_","b">>
    /\ last.create_raised
    /\ last.res = Failure("Failed to create database table")
    /\ ~TableExists(last.table_name)


\* The statement a run of the executor was given, and its text
ExecStmt == last.sql

ExecText == SqlText(last.sql)

\* The statement has one of the aggregate functions, GROUP BY, HAVING or
\* the word percentage
HasAggregateKeyword(stmt) ==
    stmt.proj \in AggregateProjections \/ stmt.clause \in GroupClauses

\* The LIMIT clause of the statement that ran (0: none), and the rows it gave
LimitInForce ==
    IF ExecStmt.own_limit # 0 THEN ExecStmt.own_limit
    ELSE IF last.res.executed = ExecText THEN 0
    ELSE IF last.res.is_aggregation THEN AggregateLimit ELSE last.top_k * 2

RowsOfExecuted ==
    IF LimitInForce = 0 THEN last.matched ELSE Min(last.matched, LimitInForce)

\* C23 (as stated): a statement is classified as aggregate exactly when it
\* holds SUM(, AVG(, COUNT(, MAX(, MIN(, GROUP BY, HAVING or the word
\* percentage, in any case; a statement with no LIMIT clause runs with
\* LIMIT 2 * top_k appended when it is a row listing and LIMIT 100 when it is
\* aggregate; a statement with a LIMIT clause of its own runs unchanged.
C23_ClassifiedAndLimited ==
    Returned("execute") =>
        /\ last.res.is_aggregation <=> HasAggregateKeyword(ExecStmt)
        /\ ExecStmt.own_limit = 0 =>
             last.res.executed =
                RStripSemicolon(ExecText) \o <<" ","L","I","M","I","T"," ">>
                \o Digits(IF HasAggregateKeyword(ExecStmt) THEN AggregateLimit
                          ELSE 2 * last.top_k)
        /\ ExecStmt.own_limit # 0 => last.res.executed = ExecText

\* C23 counterexample: a row listing of the column speed_limit has no LIMIT
\* clause and runs as it is, with no LIMIT appended
C23_LimitWordNoClause ==
    /\ Returned("execute")
    /\ ExecStmt.proj = <<"s","p","e","e","d","_","l","i","m","i","t">>
    /\ ExecStmt.clause = NoClause
    /\ ExecStmt.own_limit = 0
    /\ ~last.res.is_aggregation
    /\ last.res.executed = ExecText
    /\ ~Contains(Lower(last.res.executed), <<" ","l","i","m","i","t"," ">>)

\* C24 (as stated): for a statement classified as aggregate the executor
\* returns all rows the statement produced, never more than 100.
C24_AggregateAtMostHundred ==
    (Returned("execute") /\ last.res.is_aggregation /\ ~last.exec_raised)
    => /\ last.res.results = RowsOfExecuted
       /\ last.res.results <= AggregateLimit

JsonSafe == {"str", "int", "float", "bool", "NoneType"}

\* C25 (as stated): every value of a returned row is JSON-safe: a timestamp
\* has become a string, a value of a numeric type (integer, float, decimal)
\* a native int or float, an object of another kind its string form; none is
\* left as a decimal or a date object.
C25_ValuesJsonSafe ==
    Returned("normalize") =>
        /\ last.res.type \in JsonSafe
        /\ last.res.type \notin {"Decimal", "date", "datetime"}
        /\ last.value.type \in {"datetime", "date"} => last.res.type = "str"
        /\ last.value.type \in {"int", "float", "Decimal"} => last.res.type \in {"int", "float"}
        /\ last.value.type = "object" => last.res.type = "str"

\* C25 counterexample: the Decimal that SUM(CAST(... AS DECIMAL(10,2))) gives
\* is returned as the Decimal it was
C25_DecimalLeft ==
    /\ Returned("normalize")
    /\ last.value.type = "Decimal"
    /\ ~isinstance_int_float(last.value) /\ ~has_dict(last.value)
    /\ last.res = last.value


\* C26: describing the table never raises.  Whatever the table resolved for a
\* question, one dropped since included, the description names it and holds
\* the error when the table cannot be read, and the request goes on to the
\* translation: it never ends in the failure of the description.
C26_DescribeNeverRaises ==
    [][ (last'.pc = "done" /\ last'.kind = "query" /\ last'.table_name # NoName)
        => /\ last'.schema.table = last'.table_name
           /\ ~TableExists(last'.table_name) => last'.schema.error
           /\ last'.gen # ""
           /\ last'.raised_in # "describe"
      ]_vars

\* C26 witness: a question about a table dropped after it was resolved was
\* described with the error, translated, and answered
C26_Witness ==
    /\ Returned("query")
    /\ last.table_name = EarlierUpload.table_name
    /\ ~TableExists(last.table_name)
    /\ \E w \in Workers :
         /\ proc[w].kind = "delete" /\ proc[w].pc = "del_record"
         /\ proc[w].table_name = last.table_name /\ proc[w].table_dropped
    /\ last.schema = [table |-> last.table_name, error |-> TRUE]
    /\ last.gen = "sql" /\ last.executed /\ last.sql.verb = "select"
    /\ last.res.status


\* The rows shaped are those of a GROUP BY statement, with two columns or more
GroupedResult ==
    /\ Returned("shape") /\ last.in.sql_group_by
    /\ Len(last.in.keys) >= 2 /\ last.in.columns[1] # <<>>

\* The values of column k as floats, and the labels of the first column
ColumnAsFloats(k) == [i \in DOMAIN last.in.columns[k] |-> numeric_val(last.in.columns[k][i])]

FirstAsStrings == [i \in DOMAIN last.in.columns[1] |-> label_of(last.in.columns[1][i])]

SecondAllZero == \A i \in DOMAIN ColumnAsFloats(2) : ColumnAsFloats(2)[i] = 0

\* pie for a percentage, else line for a category of time, else bar
ExpectedChartType ==
    IF last.in.sql_percentage \/ last.in.question_percent THEN "pie_chart"
    ELSE IF last.in.keys[1] \in {<<"U","p","l","o","a","d","_","T","i","m","e">>, <<"c","h","a","l","l","a","n","_","d","a","t","e">>} THEN "line_chart"
    ELSE "bar_chart"

\* C27 (as stated): a grouped result gives the first column as labels, the
\* second column as values, in row order and of equal length, with the chart
\* type pie, line or bar.
C27_GroupedLabelsAndValues ==
    GroupedResult =>
        /\ last.res.chart_type = ExpectedChartType
        /\ last.res.labels = FirstAsStrings
        /\ last.res.values = ColumnAsFloats(2)
        /\ Len(last.res.labels) = Len(last.res.values)

\* C27 counterexample: the second column is 0 in every row and the third
\* holds 500 and 300: the values of the chart are those of the third column
C27_ValuesOfThirdColumn ==
    /\ GroupedResult
    /\ Len(last.in.keys) = 3
    /\ last.in.columns[2] = <<IntCell(0), IntCell(0)>>
    /\ last.in.columns[3] = <<IntCell(500), IntCell(300)>>
    /\ last.res.chart_type # "none"
    /\ last.res.values = <<500, 300>>
    /\ last.res.value_key = AmountKey

\* C27 (amended): a grouped result gives null or a chart.  A chart has the
\* first column as labels (the empty text for NULL), in row order, as many
\* values as labels, and the chart type pie, line or bar; its values are the
\* second column as floats unless these are all zero, and then those of a
\* later column.  A second column with a value above zero always gives a chart.
C27_ChartOfGroupedResult ==
    GroupedResult =>
        /\ last.res.chart_type # "none" =>
             /\ last.res.chart_type = ExpectedChartType
             /\ last.res.labels = FirstAsStrings
             /\ Len(last.res.labels) = Len(last.res.values)
             /\ last.res.category_key = last.in.keys[1]
             /\ ~SecondAllZero =>
                  last.res.values = ColumnAsFloats(2) /\ last.res.value_key = last.in.keys[2]
             /\ SecondAllZero =>
                  /\ Len(last.in.keys) >= 3 /\ last.res.value_key = last.in.keys[3]
                  /\ \A i \in DOMAIN last.res.values :
                        last.in.columns[3][i].type \in {"int", "Decimal"}
                            => last.res.values[i] = last.in.columns[3][i].n
        /\ (\E i \in DOMAIN ColumnAsFloats(2) : ColumnAsFloats(2)[i] > 0)
             => last.res.chart_type # "none"

\* C27 witness: the rows (Indore, 500), (Mumbai, 300) of the columns city and
\* total give the labels Indore, Mumbai, the values 500.0, 300.0, bar_chart
C27_Witness ==
    /\ GroupedResult
    /\ last.in.keys = <<<<"c","i","t","y">>, TotalKey>>
    /\ last.in.columns = << <<StrCell(<<"I","n","d","o","r","e">>), StrCell(<<"M","u","m","b","a","i">>)>>,
                            <<IntCell(500), IntCell(300)>> >>
    /\ ~last.in.sql_percentage /\ ~last.in.question_percent
    /\ last.res.chart_type = "bar_chart"
    /\ last.res.labels = <<<<"I","n","d","o","r","e">>, <<"M","u","m","b","a","i">>>>
    /\ last.res.values = <<500, 300>>

\* Column k carries a number above zero, native or written as text
CarriesNumbers(k) == \E i \in DOMAIN ColumnAsFloats(k) : ColumnAsFloats(k)[i] > 0

\* C28 (as stated): when the second column of a grouped result gives zeros
\* only, a later column that carries numbers, native or written as text with
\* a currency symbol, separators or spaces, becomes the value column; null is
\* returned only when no later column carries numbers.
C28_FallbackColumn ==
    (GroupedResult /\ SecondAllZero) =>
        IF \E k \in 3..Len(last.in.keys) : CarriesNumbers(k)
        THEN /\ last.res.chart_type # "none"
             /\ \E k \in 3..Len(last.in.keys) :
                    CarriesNumbers(k) /\ last.res.value_key = last.in.keys[k]
        ELSE last.res.chart_type = "none"

\* C28 counterexample: the second column is 0 in every row and the third
\* holds the texts '₹1,500' and '$ 300': no chart is returned
C28_TextColumnNotFound ==
    /\ GroupedResult
    /\ Len(last.in.keys) = 3
    /\ last.in.columns[2] = <<IntCell(0), IntCell(0)>>
    /\ last.in.columns[3] = <<StrCell(<<"₹","1",",","5","0","0">>), StrCell(<<"$"," ","3","0","0">>)>>
    /\ ColumnAsFloats(3) = <<1500, 300>>
    /\ last.res = NoVisualization

\* C30: a grouped result gives a chart only if one of the values extracted is
\* above zero: values that are all negative or zero give null.
C30_ChartNeedsPositiveValue ==
    GroupedResult =>
        /\ last.res.chart_type # "none" => \E i \in DOMAIN last.res.values : last.res.values[i] > 0
        /\ (\A k \in 2..Len(last.in.keys) : ~CarriesNumbers(k)) => last.res = NoVisualization

\* C30 witness: the groups with the totals -5 and -3 give no chart
C30_Witness ==
    /\ GroupedResult
    /\ Len(last.in.keys) = 2
    /\ last.in.columns[2] = <<IntCell(0 - 5), IntCell(0 - 3)>>
    /\ ColumnAsFloats(2) = <<0 - 5, 0 - 3>>
    /\ last.res = NoVisualization


\* C29 (as stated): an OTP gives one successful verification at most,
\* whatever the interleaving of the verifications, until a new one is
\* requested; a matching OTP older than 5 minutes is rejected and cleared.
C29_OtpVerifiesOnce ==
    [][ /\ \A u \in users' : u.verified <= 1
        /\ (last'.pc = "done" /\ last'.kind = "verify_otp" /\ last'.row.otp = last'.otp
            /\ last'.row.otp # NoOtp /\ Expired(last'.row, clock) /\ last'.raised_in = "")
           => /\ ~last'.res.status
              /\ \A u \in users' : u.email = last'.user => u.otp = NoOtp
      ]_vars

\* C29 counterexample: two server processes read the same OTP before either
\* cleared it, and both verifications have succeeded
C29_VerifiedTwice ==
    /\ Returned("verify_otp") /\ last.res.status
    /\ \E u \in users : u.email = last.user /\ u.verified = 2 /\ u.otp = NoOtp

====
